---- MODULE Spec2Model ----
(***************************************************************************)
(* Model of the sf-code-remediator pipeline: scan -> prioritize -> fix ->  *)
(* verify (src/index.js, SalesforceAnalyzer.run).                          *)
(*                                                                         *)
(* A file's content is the sequence of its lines (content.split('\n')).    *)
(* A line is a record: k is the text of the line up to the regular         *)
(* expressions the rules and strategies apply to it (one kind per class of *)
(* text), ws says whether the line ends in whitespace, ind is its leading  *)
(* indentation, and id is the number the line had in the file at the start *)
(* of the run (0 for a line a fix inserted); id is history only, no rule   *)
(* or strategy reads it.                                                   *)
(***************************************************************************)
EXTENDS Integers, Sequences, FiniteSets, TLC

(***************************************************************************)
(* Bounds of the model.                                                    *)
(***************************************************************************)
MaxLen == 5
MaxLenPair == 2
MaxFaults == 1

(***************************************************************************)
(* Program constants.                                                      *)
(***************************************************************************)
LineTolerance == 5
CrudRange == 10
SharingRange == 3
ComplexityThreshold == 15
GuardLen == 3

(***************************************************************************)
(* Generic sequence helpers.                                               *)
(***************************************************************************)
Max(a, b) == IF a >= b THEN a ELSE b

Min(a, b) == IF a <= b THEN a ELSE b

Abs(x) == IF x < 0 THEN -x ELSE x

RECURSIVE Flatten(_)
Flatten(ss) == IF ss = <<>> THEN <<>> ELSE Head(ss) \o Flatten(Tail(ss))

Range(s) == {s[i] : i \in 1..Len(s)}

(***************************************************************************)
(* Line kinds: the text of a line, by what the regular expressions of the  *)
(* rules and of the strategies see in it.                                  *)
(*   plain        Integer x = 1;                                           *)
(*   insert ...   insert acc;  update acc;  delete acc;  upsert acc;       *)
(*   insertNoObj  insert (acc);        (no \w+ after the keyword)          *)
(*   soql         List<Account> a = [SELECT Id FROM Account];              *)
(*   soqlOpen     List<Account> a = [SELECT Id        (query continues)    *)
(*   soqlSec      ... [SELECT Id FROM Account WITH SECURITY_ENFORCED];     *)
(*   check        if (Schema.sObjectType.Account.isAccessible()) {         *)
(*   guardIf_op   if (!Schema.sObjectType.acc.isCreateable()) {  (etc.)    *)
(*   guardThrow       throw new System.NoAccessException();                *)
(*   guardClose   }                                                        *)
(*   debug        System.debug(x);                                         *)
(*   debugRemoved // System.debug removed                                  *)
(*   debugThenCode   System.debug(x); count++;                             *)
(*   markerThenCode  // System.debug removed count++;                      *)
(*   codeThenDebug   count++; System.debug(x);                             *)
(*   codeThenMarker  count++; // System.debug removed                      *)
(*   debugOpen    System.debug(            (the call continues)            *)
(*   class        public class Foo {                                       *)
(*   classSharing public with sharing class Foo {                          *)
(*   inj          Database.query('SELECT Id FROM ' + name);                *)
(*   method       public void run() {                                      *)
(*   branchy      a line holding ComplexityThreshold branching constructs  *)
(*   istest       @IsTest                                                  *)
(***************************************************************************)
DmlOps == {"insert", "update", "delete", "upsert"}

GuardKind(op) ==
  CASE op = "insert" -> "guardIf_insert"
    [] op = "update" -> "guardIf_update"
    [] op = "delete" -> "guardIf_delete"
    [] op = "upsert" -> "guardIf_upsert"

GuardIfKinds == {GuardKind(op) : op \in DmlOps}

Kinds == DmlOps \cup GuardIfKinds \cup
  {"plain", "insertNoObj", "soql", "soqlOpen", "soqlSec", "check",
   "guardThrow", "guardClose", "debug", "debugRemoved", "class",
   "classSharing", "inj", "method", "branchy", "istest",
   "debugThenCode", "markerThenCode", "codeThenDebug", "codeThenMarker",
   "debugOpen"}

Line(k, ws, ind, id) == [k |-> k, ws |-> ws, ind |-> ind, id |-> id]

\* /\b(insert|update|delete|upsert)\s+/gi : number of matches in the line
DmlMatches(l) == IF l.k \in DmlOps \cup {"insertNoObj"} THEN 1 ELSE 0

\* /\[SELECT\s+/gi : number of matches in the line
SoqlMatches(l) == IF l.k \in {"soql", "soqlOpen", "soqlSec"} THEN 1 ELSE 0

\* securityCheckPatterns: some pattern matches the line
MatchesSecurityCheck(l) == l.k \in GuardIfKinds \cup {"check", "soqlSec"}

\* /\b(with sharing|without sharing|inherited sharing)\b/
MatchesSharingKeyword(l) == l.k = "classSharing"

\* /^\s*(public|global)\s+(abstract\s+)?(class|interface)\s+(\w+)/
MatchesClassDecl(l) == l.k = "class"

\* /System\.debug\s*\(/gi with no '//' before the match
MatchesDebug(l) == l.k \in {"debug", "debugThenCode", "codeThenDebug", "debugOpen"}

\* line.trim().startsWith('//')
IsCommentLine(l) == l.k \in {"debugRemoved", "markerThenCode"}

\* line.replace(/System\.debug\s*\([^)]*\)\s*;?/gi, '// System.debug removed'):
\* a call that does not close on the line is not matched
DebugReplaced(k) ==
  CASE k = "debug"         -> "debugRemoved"
    [] k = "debugThenCode" -> "markerThenCode"
    [] k = "codeThenDebug" -> "codeThenMarker"
    [] OTHER               -> k

\* /Database\.(query|countQuery|getQueryLocator)\s*\(/ and a '+' next to a quote
MatchesInjection(l) == l.k = "inj"

\* /^\s*(public|private|protected|global)\s+(static\s+)?(\w+)\s+(\w+)\s*\(/
MatchesMethodSig(l) == l.k = "method"

\* /@istest(\s*\(.*?\))?/i
MatchesIsTest(l) == l.k = "istest"

\* braces of the line: whether it holds a '{', and '{' count minus '}' count
HasOpenBrace(l) == l.k \in GuardIfKinds \cup {"check", "class", "classSharing", "method"}

BraceNet(l) ==
  IF HasOpenBrace(l) THEN 1 ELSE IF l.k = "guardClose" THEN -1 ELSE 0

\* matches of the complexityPatterns in the line
BranchCount(l) ==
  IF l.k \in GuardIfKinds \cup {"check"} THEN 1
  ELSE IF l.k = "branchy" THEN ComplexityThreshold ELSE 0

(***************************************************************************)
(* Findings ("violations").                                                *)
(***************************************************************************)
NoObj == "null"

Finding(rule, sev, file, line, col, fixable, op, sobject) ==
  [rule |-> rule, severity |-> sev, filePath |-> file, line |-> line,
   column |-> col, autoFixable |-> fixable, isTestCode |-> FALSE,
   op |-> op, sobject |-> sobject]

(***************************************************************************)
(* ApexCRUDViolationRule                                                   *)
(***************************************************************************)
\* lines is the whole file, i the 1-based number of the statement's line
hasSecurityCheckNearby(lines, i) ==
  LET start == Max(0, (i - 1) - CrudRange)
      end   == Min(Len(lines), (i - 1) + CrudRange)
  IN \E j \in start..(end - 1) : MatchesSecurityCheck(lines[j + 1])

extractSObject(l) == IF l.k \in DmlOps THEN "acc" ELSE NoObj

detectDMLOperation(l) ==
  IF l.k \in DmlOps THEN l.k ELSE IF l.k = "insertNoObj" THEN "insert" ELSE "DML"

CrudLineFindings(file, lines, i) ==
  LET l == lines[i]
      dml == IF DmlMatches(l) > 0 /\ ~hasSecurityCheckNearby(lines, i)
             THEN << Finding("ApexCRUDViolation", "Critical", file, i, 1,
                             extractSObject(l) # NoObj,
                             detectDMLOperation(l), extractSObject(l)) >>
             ELSE <<>>
      soql == IF SoqlMatches(l) > 0 /\ ~hasSecurityCheckNearby(lines, i)
              THEN << Finding("ApexCRUDViolation", "Critical", file, i, 1,
                              TRUE, "SOQL", extractSObject(l)) >>
              ELSE <<>>
  IN dml \o soql

(***************************************************************************)
(* ApexSharingViolationRule                                                *)
(***************************************************************************)
hasSharingKeyword(lines, i) ==
  LET checkRange == Max(0, (i - 1) - SharingRange)
  IN \E j \in checkRange..(i - 1) : MatchesSharingKeyword(lines[j + 1])

SharingLineFindings(file, lines, i) ==
  IF MatchesClassDecl(lines[i]) /\ ~hasSharingKeyword(lines, i)
  THEN << Finding("ApexSharingViolation", "High", file, i, 1, TRUE, "none", NoObj) >>
  ELSE <<>>

(***************************************************************************)
(* AvoidDebugStatementsRule, NoTrailingWhitespaceRule, ApexSOQLInjectionRule *)
(***************************************************************************)
DebugLineFindings(file, lines, i) ==
  IF MatchesDebug(lines[i])
  THEN << Finding("AvoidDebugStatements", "Low", file, i, 1, TRUE, "none", NoObj) >>
  ELSE <<>>

WhitespaceLineFindings(file, lines, i) ==
  IF lines[i].ws
  THEN << Finding("NoTrailingWhitespace", "Info", file, i, 1, TRUE, "none", NoObj) >>
  ELSE <<>>

InjectionLineFindings(file, lines, i) ==
  IF MatchesInjection(lines[i])
  THEN << Finding("ApexSOQLInjection", "Critical", file, i, 1, FALSE, "none", NoObj) >>
  ELSE <<>>

(***************************************************************************)
(* CognitiveComplexityRule                                                 *)
(***************************************************************************)
\* the number of the last line of the body that starts at line i: the first
\* line at whose end a '{' has been seen and the brace count is back to 0,
\* else the last line of the file
RECURSIVE BodyEnd(_, _, _, _)
BodyEnd(lines, j, count, started) ==
  LET c == count + BraceNet(lines[j])
      s == started \/ HasOpenBrace(lines[j])
  IN IF (s /\ c = 0) \/ j = Len(lines) THEN j
     ELSE BodyEnd(lines, j + 1, c, s)

RECURSIVE SumBranches(_, _, _)
SumBranches(lines, from, to) ==
  IF from > to THEN 0
  ELSE BranchCount(lines[from]) + SumBranches(lines, from + 1, to)

\* extractMethodBody pushes a line only once a '{' has been seen; the
\* signature kinds of the model hold their '{', so the body starts at i
methodComplexity(lines, i) == SumBranches(lines, i, BodyEnd(lines, i, 0, FALSE))

ComplexityLineFindings(file, lines, i) ==
  IF MatchesMethodSig(lines[i]) /\ methodComplexity(lines, i) > ComplexityThreshold
  THEN << Finding("CognitiveComplexity", "Moderate", file, i, 1, FALSE, "none", NoObj) >>
  ELSE <<>>

(***************************************************************************)
(* ApexScanner                                                             *)
(***************************************************************************)
RuleOrder == << "ApexCRUDViolation", "ApexSharingViolation", "AvoidDebugStatements",
                "NoTrailingWhitespace", "ApexSOQLInjection", "CognitiveComplexity" >>

LineFindings(rule, file, lines, i) ==
  CASE rule = "ApexCRUDViolation"    -> CrudLineFindings(file, lines, i)
    [] rule = "ApexSharingViolation" -> SharingLineFindings(file, lines, i)
    [] rule = "AvoidDebugStatements" -> DebugLineFindings(file, lines, i)
    [] rule = "NoTrailingWhitespace" -> WhitespaceLineFindings(file, lines, i)
    [] rule = "ApexSOQLInjection"    -> InjectionLineFindings(file, lines, i)
    [] rule = "CognitiveComplexity"  -> ComplexityLineFindings(file, lines, i)

\* rule.check(filePath, content): the findings of one rule, top line first
RuleCheck(rule, file, lines) ==
  Flatten([i \in 1..Len(lines) |-> LineFindings(rule, file, lines, i)])

\* whether the file name, lower-cased, contains 'test'
FileNames == {"A.cls", "B.cls", "BTest.cls"}

NameContainsTest(file) == file = "BTest.cls"

isTestClass(file, lines) ==
  NameContainsTest(file) \/ \E i \in 1..Len(lines) : MatchesIsTest(lines[i])

\* as MarkTest, but the autoFixable flag is left as the rule set it
MarkTest_KeepsFixable(v) == [v EXCEPT !.isTestCode = TRUE]

MarkTest(v) == [v EXCEPT !.isTestCode = TRUE, !.autoFixable = FALSE]

\* scanFile: every rule in turn; findings of a test class are marked and
\* lose their autoFixable flag
scanFile(file, lines) ==
  LET raw == Flatten([r \in 1..Len(RuleOrder) |-> RuleCheck(RuleOrder[r], file, lines)])
  IN IF isTestClass(file, lines)
     THEN [i \in 1..Len(raw) |-> MarkTest(raw[i])]
     ELSE raw

\* scan(): files in directory order; a test class is skipped unless the
\* scanner was built with includeTestClasses
FileSkipped(file, lines, includeTestClasses) ==
  isTestClass(file, lines) /\ ~includeTestClasses

\* as scan, but the line counter is not reset between files: the findings of
\* a file are numbered after the lines of the files scanned before it
scan_SharedLineCounter(fs, order, includeTestClasses) ==
  LET offset(i) == Len(Flatten([j \in 1..(i - 1) |-> fs[order[j]]]))
      shifted(i) == LET found == scanFile(order[i], fs[order[i]])
                    IN [k \in 1..Len(found) |->
                          [found[k] EXCEPT !.line = @ + offset(i)]]
      perFile == [i \in 1..Len(order) |->
                    IF FileSkipped(order[i], fs[order[i]], includeTestClasses)
                    THEN <<>>
                    ELSE shifted(i)]
  IN [filesScanned |-> Len(order),
      violations |-> Flatten(perFile),
      scanned |-> SelectSeq(order,
                    LAMBDA f : ~FileSkipped(f, fs[f], includeTestClasses))]

scan(fs, order, includeTestClasses) ==
  LET perFile == [i \in 1..Len(order) |->
                    IF FileSkipped(order[i], fs[order[i]], includeTestClasses)
                    THEN <<>>
                    ELSE scanFile(order[i], fs[order[i]])]
  IN [filesScanned |-> Len(order),
      violations |-> Flatten(perFile),
      scanned |-> SelectSeq(order,
                    LAMBDA f : ~FileSkipped(f, fs[f], includeTestClasses))]

\* scanResults.fileViolations[filePath] || []
FileViolations(res, file) == SelectSeq(res.violations, LAMBDA v : v.filePath = file)

(***************************************************************************)
(* Prioritizer                                                             *)
(***************************************************************************)
InstanceCap == 5

TierKeys == << "TIER1_CRITICAL", "TIER2_IMPORTANT", "TIER3_CLEANUP" >>

Tier1Rules == {"ApexCRUDViolation", "ApexFLSViolation", "ApexSharingViolation",
               "ApexSOQLInjection"}

Tier2Rules == {"CognitiveComplexity", "OperationWithLimitsInLoop", "ExcessiveDML",
               "NestedLogic"}

Tier3Rules == {"NoTrailingWhitespace", "AvoidDebugStatements", "MissingApexDoc",
               "UnusedVariable"}

\* ruleTierMap lookup with the severity fallback of classifyByTier
TierOf(v) ==
  IF v.rule \in Tier1Rules THEN "TIER1_CRITICAL"
  ELSE IF v.rule \in Tier2Rules THEN "TIER2_IMPORTANT"
  ELSE IF v.rule \in Tier3Rules THEN "TIER3_CLEANUP"
  ELSE IF v.severity \in {"Critical", "High"} THEN "TIER1_CRITICAL"
  ELSE IF v.severity = "Moderate" THEN "TIER2_IMPORTANT"
  ELSE "TIER3_CLEANUP"

\* as classifyByTier, but the cleanup tier also takes every fixable finding
classifyByTier_FixableToCleanup(violations) ==
  [t \in Range(TierKeys) |->
     SelectSeq(violations,
               LAMBDA v : TierOf(v) = t \/ (t = "TIER3_CLEANUP" /\ v.autoFixable))]

classifyByTier(violations) ==
  [t \in Range(TierKeys) |-> SelectSeq(violations, LAMBDA v : TierOf(v) = t)]

IndexOfRule(byRule, rule) ==
  IF \E i \in 1..Len(byRule) : byRule[i].rule = rule
  THEN CHOOSE i \in 1..Len(byRule) : byRule[i].rule = rule
  ELSE 0

IndexOfFile(files, file) ==
  IF \E i \in 1..Len(files) : files[i].filePath = file
  THEN CHOOSE i \in 1..Len(files) : files[i].filePath = file
  ELSE 0

\* one iteration of the loop of groupViolations
AddToGroups(byRule, v) ==
  LET idx == IndexOfRule(byRule, v.rule)
      g0 == IF idx = 0
            THEN [rule |-> v.rule, severity |-> v.severity,
                  autoFixable |-> v.autoFixable, count |-> 0, fileCount |-> 0,
                  files |-> <<>>, instances |-> <<>>]
            ELSE byRule[idx]
      fidx == IndexOfFile(g0.files, v.filePath)
      f0 == IF fidx = 0
            THEN [filePath |-> v.filePath, count |-> 0, violations |-> <<>>]
            ELSE g0.files[fidx]
      f1 == [f0 EXCEPT !.count = @ + 1, !.violations = Append(@, v)]
      g1 == [g0 EXCEPT !.count = @ + 1,
                       !.files = IF fidx = 0 THEN Append(@, f1)
                                 ELSE [@ EXCEPT ![fidx] = f1],
                       !.instances = IF Len(@) < InstanceCap THEN Append(@, v) ELSE @]
  IN IF idx = 0 THEN Append(byRule, g1) ELSE [byRule EXCEPT ![idx] = g1]

RECURSIVE GroupLoop(_, _)
GroupLoop(byRule, vs) ==
  IF vs = <<>> THEN byRule ELSE GroupLoop(AddToGroups(byRule, Head(vs)), Tail(vs))

\* as groupViolations, but without the final loop that sets fileCount
groupViolations_NoFileCount(violations) == GroupLoop(<<>>, violations)

groupViolations(violations) ==
  LET byRule == GroupLoop(<<>>, violations)
  IN [i \in 1..Len(byRule) |-> [byRule[i] EXCEPT !.fileCount = Len(byRule[i].files)]]

\* prioritize(scanResults).tiers: tier key -> rule groups, in insertion order
prioritize(res) ==
  LET classified == classifyByTier(res.violations)
  IN [t \in Range(TierKeys) |-> groupViolations(classified[t])]

RECURSIVE SumOver(_, _)
\* the sum of field(s[i]) over a sequence, as the += of calculateSummary
SumOver(s, field) ==
  IF s = <<>> THEN 0 ELSE s[1][field] + SumOver(Tail(s), field)

\* the entries pushed to criticalRules, importantRules or cleanupRules
RuleEntries(groups) ==
  [i \in 1..Len(groups) |->
     [rule |-> groups[i].rule, findings |-> groups[i].fileCount,
      occurrences |-> groups[i].count]]

calculateSummary(groupedByTier) ==
  LET t1 == groupedByTier["TIER1_CRITICAL"]
      t2 == groupedByTier["TIER2_IMPORTANT"]
      t3 == groupedByTier["TIER3_CLEANUP"]
  IN [criticalFindings |-> SumOver(t1, "fileCount"),
      importantFindings |-> SumOver(t2, "fileCount"),
      cleanupFindings |-> SumOver(t3, "fileCount"),
      totalFindings |-> SumOver(t1, "fileCount") + SumOver(t2, "fileCount")
                        + SumOver(t3, "fileCount"),
      criticalOccurrences |-> SumOver(t1, "count"),
      importantOccurrences |-> SumOver(t2, "count"),
      cleanupOccurrences |-> SumOver(t3, "count"),
      totalOccurrences |-> SumOver(t1, "count") + SumOver(t2, "count")
                           + SumOver(t3, "count"),
      criticalRules |-> RuleEntries(t1),
      importantRules |-> RuleEntries(t2),
      cleanupRules |-> RuleEntries(t3)]

(***************************************************************************)
(* SalesforceAnalyzer.getAutoFixableViolations                             *)
(***************************************************************************)
GroupFixable(group) ==
  Flatten([f \in 1..Len(group.files) |->
             SelectSeq(group.files[f].violations, LAMBDA v : v.autoFixable)])

\* as getAutoFixableViolations, but every rule group of tier 1 is taken whole
getAutoFixableViolations_AllOfTier1(tiers) ==
  LET tier1 == tiers["TIER1_CRITICAL"]
      tier3 == tiers["TIER3_CLEANUP"]
  IN Flatten([g \in 1..Len(tier1) |->
                Flatten([f \in 1..Len(tier1[g].files) |->
                           tier1[g].files[f].violations])])
     \o Flatten([g \in 1..Len(tier3) |-> GroupFixable(tier3[g])])

getAutoFixableViolations(tiers) ==
  LET tier1 == tiers["TIER1_CRITICAL"]
      tier3 == tiers["TIER3_CLEANUP"]
  IN Flatten([g \in 1..Len(tier1) |->
                IF tier1[g].rule \in {"ApexCRUDViolation", "ApexSharingViolation"}
                THEN GroupFixable(tier1[g]) ELSE <<>>])
     \o Flatten([g \in 1..Len(tier3) |-> GroupFixable(tier3[g])])

(***************************************************************************)
(* Fix strategies: content and finding to a result; the result's content   *)
(* field is read only when success is TRUE.                                *)
(***************************************************************************)
Success(lines, description) ==
  [success |-> TRUE, content |-> lines, text |-> description]

Failure(reason) == [success |-> FALSE, content |-> <<>>, text |-> reason]

LineInRange(lines, v) == (v.line - 1) >= 0 /\ (v.line - 1) < Len(lines)

\* lines.splice(lineIndex, 0, ...newLines), lineIndex = at - 1
InsertBefore(lines, at, newLines) ==
  SubSeq(lines, 1, at - 1) \o newLines \o SubSeq(lines, at, Len(lines))

\* as securityCheckLines, but the guard is that of an insert whatever the
\* operation
securityCheckLines_AlwaysCreateable(op, ind) ==
  IF op \in DmlOps
  THEN << Line("guardIf_insert", FALSE, ind, 0),
          Line("guardThrow", FALSE, ind, 0),
          Line("guardClose", FALSE, ind, 0) >>
  ELSE <<>>

\* generateSecurityCheck(...).split('\n').map(l => indentation + l); the
\* result is <<>> where generateSecurityCheck returns null
securityCheckLines(op, ind) ==
  IF op \in DmlOps
  THEN << Line(GuardKind(op), FALSE, ind, 0),
          Line("guardThrow", FALSE, ind, 0),
          Line("guardClose", FALSE, ind, 0) >>
  ELSE <<>>

CRUDFixApply(lines, v) ==
  IF ~LineInRange(lines, v) THEN Failure("Invalid line number")
  ELSE LET l == lines[v.line]
       IN IF v.op \in {"SOQL", "read"}
          THEN IF l.k = "soqlSec"
               THEN Failure("WITH SECURITY_ENFORCED already present")
               ELSE IF l.k # "soql"
               THEN Failure("Could not parse SOQL query")
               ELSE Success([lines EXCEPT ![v.line].k = "soqlSec"],
                            "Added WITH SECURITY_ENFORCED to SOQL query")
          ELSE IF v.sobject = NoObj
          THEN Failure("Cannot determine SObject type - manual fix required")
          ELSE IF securityCheckLines(v.op, l.ind) = <<>>
          THEN Failure("Cannot generate security check")
          ELSE Success(InsertBefore(lines, v.line, securityCheckLines(v.op, l.ind)),
                       "Added security check")

SharingFixApply(lines, v) ==
  IF ~LineInRange(lines, v) THEN Failure("Invalid line number")
  ELSE IF ~MatchesClassDecl(lines[v.line])
  THEN Failure("Cannot parse class declaration")
  ELSE Success([lines EXCEPT ![v.line].k = "classSharing"], "Added 'with sharing'")

\* as WhitespaceFixApply, but every line of the content is trimmed
WhitespaceFixApply_TrimsAll(lines, v) ==
  IF ~LineInRange(lines, v) THEN Failure("Invalid line number")
  ELSE Success([i \in 1..Len(lines) |-> [lines[i] EXCEPT !.ws = FALSE]],
               "Removed trailing whitespace")

WhitespaceFixApply(lines, v) ==
  IF ~LineInRange(lines, v) THEN Failure("Invalid line number")
  ELSE Success([lines EXCEPT ![v.line].ws = FALSE], "Removed trailing whitespace")

DebugFixApply(lines, v) ==
  IF ~LineInRange(lines, v) THEN Failure("Invalid line number")
  ELSE IF IsCommentLine(lines[v.line]) THEN Failure("Already commented")
  ELSE Success([lines EXCEPT ![v.line].k = DebugReplaced(@)],
               "Removed System.debug() statement")

(***************************************************************************)
(* ApexFixer                                                               *)
(***************************************************************************)
\* as nonAutoFixableRules, but only the injection rule is excluded
nonAutoFixableRules_OnlyInjection == {"ApexSOQLInjection"}

nonAutoFixableRules == {"ApexSOQLInjection", "CognitiveComplexity",
                        "OperationWithLimitsInLoop"}

StrategyRules == {"ApexCRUDViolation", "ApexSharingViolation",
                  "AvoidDebugStatements", "NoTrailingWhitespace"}

\* this.fixStrategies[violation.rule].apply(content, violation)
StrategyApply(lines, v) ==
  CASE v.rule = "ApexCRUDViolation"    -> CRUDFixApply(lines, v)
    [] v.rule = "ApexSharingViolation" -> SharingFixApply(lines, v)
    [] v.rule = "AvoidDebugStatements" -> DebugFixApply(lines, v)
    [] v.rule = "NoTrailingWhitespace" -> WhitespaceFixApply(lines, v)

RECURSIVE DedupFrom(_, _)
DedupFrom(s, seen) ==
  IF s = <<>> THEN <<>>
  ELSE IF Head(s) \in seen THEN DedupFrom(Tail(s), seen)
  ELSE << Head(s) >> \o DedupFrom(Tail(s), seen \cup {Head(s)})

\* groupByFile: the keys in insertion order, and the list of one key
GroupedFiles(violations) ==
  DedupFrom([i \in 1..Len(violations) |-> violations[i].filePath], {})

GroupOf(violations, file) == SelectSeq(violations, LAMBDA v : v.filePath = file)

\* fileViolations.sort((a, b) => b.line - a.line): stable, highest line first
InsertDesc(sorted, v) ==
  LET before == SelectSeq(sorted, LAMBDA w : w.line >= v.line)
      after  == SelectSeq(sorted, LAMBDA w : w.line < v.line)
  IN before \o << v >> \o after

RECURSIVE SortLoop(_, _)
SortLoop(sorted, vs) ==
  IF vs = <<>> THEN sorted ELSE SortLoop(InsertDesc(sorted, Head(vs)), Tail(vs))

\* as sortedViolations, but lowest line first
sortedViolations_Ascending(vs) ==
  LET d == SortLoop(<<>>, vs) IN [i \in 1..Len(d) |-> d[Len(d) + 1 - i]]

sortedViolations(vs) == SortLoop(<<>>, vs)

(***************************************************************************)
(* Verifier                                                                *)
(***************************************************************************)
\* as violationStillExists, but only a finding on the very same line counts
violationStillExists_SameLine(newVs, original) ==
  \E i \in 1..Len(newVs) :
    /\ newVs[i].rule = original.rule
    /\ newVs[i].filePath = original.filePath
    /\ newVs[i].line = original.line

violationStillExists(newVs, original) ==
  \E i \in 1..Len(newVs) :
    /\ newVs[i].rule = original.rule
    /\ newVs[i].filePath = original.filePath
    /\ Abs(newVs[i].line - original.line) <= LineTolerance

\* as findIntroducedViolations, but any earlier finding nearby counts,
\* whatever its rule
findIntroducedViolations_AnyRule(originalVs, newVs) ==
  SelectSeq(newVs, LAMBDA n :
    ~\E i \in 1..Len(originalVs) :
       Abs(originalVs[i].line - n.line) <= LineTolerance)

findIntroducedViolations(originalVs, newVs) ==
  SelectSeq(newVs, LAMBDA n :
    ~\E i \in 1..Len(originalVs) :
       /\ originalVs[i].rule = n.rule
       /\ Abs(originalVs[i].line - n.line) <= LineTolerance)

(***************************************************************************)
(* State of one run of SalesforceAnalyzer.run()                            *)
(***************************************************************************)
VARIABLES
  disk,          \* live content of every .cls file of the target directory
  backups,       \* every <file>.backup sibling: whether it exists, and its content
  cfg,           \* options of the run: autoFix, includeTestClasses, and the
                 \* directory order of the files
  pc,            \* position of run()
  scanResults,   \* result of the first scan
  eligible,      \* getAutoFixableViolations(...)
  fileQueue,     \* fix(): files still to process, the current one first
  content,       \* fix(): working copy of the current file
  modified,      \* fix(): whether a strategy succeeded on the current file
  todo,          \* fix(): sorted findings of the current file not yet visited
  fixed,         \* fix(): result list
  failed,        \* fix(): result list
  updatedFiles,  \* fix(): result list
  newScan,       \* verify(): result of the re-scan
  verified,      \* verify(): result list
  newViolations, \* verify(): result list
  rollbacks,     \* verify(): result list
  vQueue,        \* verify(): updated files still to check
  faults,        \* number of I/O operations that have failed so far
  disk0,         \* history: content of every file when the run started
  writes,        \* history: number of writeFile calls that completed, per file
  rescanResults, \* run(): result of the scan that follows verify()
  ioErrors,      \* history: the I/O operations that failed, as <<op, file>>
  applied        \* history: the strategy applications, in order

vars == << disk, backups, cfg, pc, scanResults, eligible, fileQueue, content,
           modified, todo, fixed, failed, updatedFiles, newScan, verified,
           newViolations, rollbacks, vQueue, faults, disk0, writes, ioErrors,
           applied, rescanResults >>

NoFile == [exists |-> FALSE, content |-> <<>>]

FileWith(lines) == [exists |-> TRUE, content |-> lines]

NoScan == [filesScanned |-> 0, violations |-> <<>>, scanned |-> <<>>]

(***************************************************************************)
(* Initial states: the files of the target directory and the options.      *)
(***************************************************************************)
Proto(k, ws, ind) == [k |-> k, ws |-> ws, ind |-> ind]

\* the file whose lines are the given texts, numbered from 1
MkFile(protos) ==
  [i \in 1..Len(protos) |-> Line(protos[i].k, protos[i].ws, protos[i].ind, i)]

SeqsUpTo(S, n) == UNION {[1..m -> S] : m \in 1..n}

\* classes, sharing declarations and DML statements
AlphabetSharing == {Proto("plain", FALSE, 0), Proto("insert", FALSE, 1),
                    Proto("class", FALSE, 0), Proto("classSharing", FALSE, 0)}

\* methods, branching, DML and a finding no strategy fixes
AlphabetMethods == {Proto("method", FALSE, 0), Proto("branchy", FALSE, 1),
                    Proto("update", FALSE, 1), Proto("inj", FALSE, 1)}

\* cleanup findings next to DML, two findings on one line included
AlphabetPairA == {Proto("delete", TRUE, 1), Proto("debug", TRUE, 0),
                  Proto("soql", FALSE, 1), Proto("insertNoObj", FALSE, 0)}

FixturesPairB == { << Proto("upsert", FALSE, 0) >>,
                   << Proto("debug", FALSE, 1) >>,
                   << Proto("istest", FALSE, 0), Proto("insert", FALSE, 1) >>,
                   << Proto("soqlOpen", FALSE, 0), Proto("plain", FALSE, 0) >> }

\* what a .backup left behind by an earlier run holds
StaleContent == << Line("plain", FALSE, 0, 0) >>

InitialRuns ==
  { [order |-> << "A.cls" >>, files |-> [f \in {"A.cls"} |-> MkFile(a)],
     autoFix |-> af, includeTestClasses |-> FALSE, stale |-> FALSE] :
      a \in SeqsUpTo(AlphabetSharing, MaxLen), af \in BOOLEAN }
  \cup
  { [order |-> << "A.cls" >>, files |-> [f \in {"A.cls"} |-> MkFile(a)],
     autoFix |-> TRUE, includeTestClasses |-> FALSE, stale |-> st] :
      a \in SeqsUpTo(AlphabetMethods, MaxLen - 1), st \in BOOLEAN }
  \cup
  { [order |-> << "A.cls", bn >>,
     files |-> [f \in {"A.cls", bn} |-> IF f = "A.cls" THEN MkFile(a) ELSE MkFile(b)],
     autoFix |-> TRUE, includeTestClasses |-> it, stale |-> FALSE] :
      a \in SeqsUpTo(AlphabetPairA, MaxLenPair), b \in FixturesPairB,
      bn \in {"B.cls", "BTest.cls"}, it \in BOOLEAN }

Init ==
  \E run \in InitialRuns :
    /\ disk = run.files
    /\ disk0 = run.files
    /\ backups = [f \in DOMAIN run.files |->
                    IF run.stale THEN FileWith(StaleContent) ELSE NoFile]
    /\ cfg = [order |-> run.order, autoFix |-> run.autoFix,
              includeTestClasses |-> run.includeTestClasses]
    /\ pc = "scan"
    /\ scanResults = NoScan
    /\ eligible = <<>>
    /\ fileQueue = <<>>
    /\ content = <<>>
    /\ modified = FALSE
    /\ todo = <<>>
    /\ fixed = <<>>
    /\ failed = <<>>
    /\ updatedFiles = <<>>
    /\ newScan = NoScan
    /\ rescanResults = NoScan
    /\ verified = <<>>
    /\ newViolations = <<>>
    /\ rollbacks = <<>>
    /\ vQueue = <<>>
    /\ faults = 0
    /\ writes = [f \in DOMAIN run.files |-> 0]
    /\ ioErrors = {}
    /\ applied = <<>>

(***************************************************************************)
(* run(): scan, prioritize, choose the eligible findings                   *)
(***************************************************************************)
fixVars == << fileQueue, content, modified, todo, fixed, failed, updatedFiles >>

verifyVars == << newScan, verified, newViolations, rollbacks, vQueue >>

faultVars == << faults, ioErrors >>

\* an I/O operation on a file fails
Fault(op, file) ==
  /\ faults < MaxFaults
  /\ faults' = faults + 1
  /\ ioErrors' = ioErrors \cup {<< op, file >>}

Scan ==
  /\ pc = "scan"
  /\ scanResults' = scan(disk, cfg.order, cfg.includeTestClasses)
  /\ pc' = "classify"
  /\ UNCHANGED << disk, backups, cfg, eligible, fixVars, verifyVars, faultVars,
                  disk0, rescanResults, writes, applied >>

\* readFile throws in the loop of scan(): nothing catches it, scan() and
\* run() reject, and main() only prints the error
ScanFails ==
  /\ pc = "scan"
  /\ \E f \in Range(cfg.order) : Fault("scan", f)
  /\ pc' = "crashed"
  /\ UNCHANGED << disk, backups, cfg, scanResults, eligible, fixVars,
                  verifyVars, disk0, rescanResults, writes, applied >>

\* as Classify, but fix() is entered whenever something is eligible
Classify_IgnoresAutoFix ==
  /\ pc = "classify"
  /\ LET el == getAutoFixableViolations(prioritize(scanResults))
     IN /\ eligible' = el
        /\ IF Len(el) > 0
           THEN fileQueue' = GroupedFiles(el) /\ pc' = "backup"
           ELSE fileQueue' = <<>> /\ pc' = "done"
  /\ UNCHANGED << disk, backups, cfg, scanResults, content, modified, todo,
                  fixed, failed, updatedFiles, verifyVars, faultVars, disk0,
                  rescanResults, writes, applied >>

\* prioritize, getAutoFixableViolations, and the entry of fix() (groupByFile)
\* when auto-fix is enabled and something is eligible
Classify ==
  /\ pc = "classify"
  /\ LET el == getAutoFixableViolations(prioritize(scanResults))
     IN /\ eligible' = el
        /\ IF cfg.autoFix /\ Len(el) > 0
           THEN fileQueue' = GroupedFiles(el) /\ pc' = "backup"
           ELSE fileQueue' = <<>> /\ pc' = "done"
  /\ UNCHANGED << disk, backups, cfg, scanResults, content, modified, todo,
                  fixed, failed, updatedFiles, verifyVars, faultVars, disk0, rescanResults,
                  writes, applied >>

(***************************************************************************)
(* ApexFixer.fix(): one file after the other                               *)
(***************************************************************************)
\* where fix() goes on once the current file is finished
AfterFile == IF Len(fileQueue) > 1 THEN "backup" ELSE "verify"

FileProcessingError(vs) ==
  [i \in 1..Len(vs) |-> [violation |-> vs[i], reason |-> "File processing error"]]

\* as BackupFile, but nothing is copied
BackupFile_NoCopy ==
  /\ pc = "backup"
  /\ pc' = "read"
  /\ UNCHANGED << disk, backups, cfg, scanResults, eligible, fixVars,
                  verifyVars, faultVars, disk0, rescanResults, writes, applied >>

\* backupFile: copyFile(filePath, filePath + '.backup')
BackupFile ==
  /\ pc = "backup"
  /\ backups' = [backups EXCEPT ![Head(fileQueue)] = FileWith(disk[Head(fileQueue)])]
  /\ pc' = "read"
  /\ UNCHANGED << disk, cfg, scanResults, eligible, fixVars, verifyVars,
                  faultVars, disk0, rescanResults, writes, applied >>

\* as BackupFileFails, but the error reaches the per-file catch block of fix()
BackupFileFails_FailsFile ==
  /\ pc = "backup"
  /\ Fault("backup", Head(fileQueue))
  /\ failed' = failed \o FileProcessingError(GroupOf(eligible, Head(fileQueue)))
  /\ fileQueue' = Tail(fileQueue)
  /\ pc' = AfterFile
  /\ UNCHANGED << disk, backups, cfg, scanResults, eligible, content, modified,
                  todo, fixed, updatedFiles, verifyVars, disk0, rescanResults,
                  writes, applied >>

\* the copy fails: the error is caught inside backupFile and only logged
BackupFileFails ==
  /\ pc = "backup"
  /\ Fault("backup", Head(fileQueue))
  /\ pc' = "read"
  /\ UNCHANGED << disk, backups, cfg, scanResults, eligible, fixVars,
                  verifyVars, disk0, rescanResults, writes, applied >>

\* as ReadFile, but the modified flag is carried over from the file before
ReadFile_KeepsModified ==
  /\ pc = "read"
  /\ content' = disk[Head(fileQueue)]
  /\ modified' = modified
  /\ todo' = sortedViolations(GroupOf(eligible, Head(fileQueue)))
  /\ pc' = "apply"
  /\ UNCHANGED << disk, backups, cfg, scanResults, eligible, fileQueue, fixed,
                  failed, updatedFiles, verifyVars, faultVars, disk0, rescanResults, writes,
                  applied >>

\* readFile, then the sort of this file's findings
ReadFile ==
  /\ pc = "read"
  /\ content' = disk[Head(fileQueue)]
  /\ modified' = FALSE
  /\ todo' = sortedViolations(GroupOf(eligible, Head(fileQueue)))
  /\ pc' = "apply"
  /\ UNCHANGED << disk, backups, cfg, scanResults, eligible, fileQueue, fixed,
                  failed, updatedFiles, verifyVars, faultVars, disk0, rescanResults, writes,
                  applied >>

\* as ReadFileFails, but the error ends the loop over the files
ReadFileFails_Aborts ==
  /\ pc = "read"
  /\ Fault("read", Head(fileQueue))
  /\ failed' = failed \o FileProcessingError(GroupOf(eligible, Head(fileQueue)))
  /\ fileQueue' = <<>>
  /\ pc' = "verify"
  /\ UNCHANGED << disk, backups, cfg, scanResults, eligible, content, modified,
                  todo, fixed, updatedFiles, verifyVars, disk0, rescanResults, writes, applied >>

\* readFile throws: the per-file catch block fails every finding of the file
ReadFileFails ==
  /\ pc = "read"
  /\ Fault("read", Head(fileQueue))
  /\ failed' = failed \o FileProcessingError(GroupOf(eligible, Head(fileQueue)))
  /\ fileQueue' = Tail(fileQueue)
  /\ pc' = AfterFile
  /\ UNCHANGED << disk, backups, cfg, scanResults, eligible, content, modified,
                  todo, fixed, updatedFiles, verifyVars, disk0, rescanResults, writes, applied >>

NoLine == [k |-> "none", ws |-> FALSE, ind |-> 0, id |-> 0]

\* as ApplyNext, but a strategy that fails ends the loop over the findings
ApplyNext_StopsAtFailure ==
  /\ pc = "apply"
  /\ todo # <<>>
  /\ LET v == Head(todo)
         res == StrategyApply(content, v)
     IN IF ~v.autoFixable
        THEN UNCHANGED << content, modified, fixed, failed, applied >>
        ELSE IF v.rule \in nonAutoFixableRules
        THEN /\ failed' = Append(failed, [violation |-> v,
                                          reason |-> "Rule not eligible for auto-fix"])
             /\ UNCHANGED << content, modified, fixed, applied >>
        ELSE IF v.rule \notin StrategyRules
        THEN UNCHANGED << content, modified, fixed, failed, applied >>
        ELSE /\ applied' = Append(applied,
                  [violation |-> v, success |-> res.success,
                   target |-> IF LineInRange(content, v) THEN content[v.line]
                              ELSE NoLine])
             /\ IF res.success
                THEN /\ content' = res.content
                     /\ modified' = TRUE
                     /\ fixed' = Append(fixed, [violation |-> v,
                                                fixApplied |-> res.text])
                     /\ UNCHANGED failed
                ELSE /\ failed' = Append(failed, [violation |-> v,
                                                  reason |-> res.text])
                     /\ UNCHANGED << content, modified, fixed >>
  /\ todo' = IF Head(todo).autoFixable
                 /\ Head(todo).rule \in StrategyRules
                 /\ ~StrategyApply(content, Head(todo)).success
              THEN <<>> ELSE Tail(todo)
  /\ UNCHANGED << disk, backups, cfg, pc, scanResults, eligible, fileQueue,
                  updatedFiles, verifyVars, faultVars, disk0, rescanResults, writes >>

\* one iteration of the loop over sortedViolations
ApplyNext ==
  /\ pc = "apply"
  /\ todo # <<>>
  /\ LET v == Head(todo)
         res == StrategyApply(content, v)
     IN IF ~v.autoFixable
        THEN UNCHANGED << content, modified, fixed, failed, applied >>
        ELSE IF v.rule \in nonAutoFixableRules
        THEN /\ failed' = Append(failed, [violation |-> v,
                                          reason |-> "Rule not eligible for auto-fix"])
             /\ UNCHANGED << content, modified, fixed, applied >>
        ELSE IF v.rule \notin StrategyRules
        THEN UNCHANGED << content, modified, fixed, failed, applied >>
        ELSE /\ applied' = Append(applied,
                  [violation |-> v, success |-> res.success,
                   target |-> IF LineInRange(content, v) THEN content[v.line]
                              ELSE NoLine])
             /\ IF res.success
                THEN /\ content' = res.content
                     /\ modified' = TRUE
                     /\ fixed' = Append(fixed, [violation |-> v,
                                                fixApplied |-> res.text])
                     /\ UNCHANGED failed
                ELSE /\ failed' = Append(failed, [violation |-> v,
                                                  reason |-> res.text])
                     /\ UNCHANGED << content, modified, fixed >>
  /\ todo' = Tail(todo)
  /\ UNCHANGED << disk, backups, cfg, pc, scanResults, eligible, fileQueue,
                  updatedFiles, verifyVars, faultVars, disk0, rescanResults, writes >>

\* as SkipWrite, but the working copy is written all the same
SkipWrite_Writes ==
  /\ pc = "apply"
  /\ todo = <<>>
  /\ ~modified
  /\ disk' = [disk EXCEPT ![Head(fileQueue)] = content]
  /\ writes' = [writes EXCEPT ![Head(fileQueue)] = @ + 1]
  /\ updatedFiles' = Append(updatedFiles, Head(fileQueue))
  /\ fileQueue' = Tail(fileQueue)
  /\ pc' = AfterFile
  /\ UNCHANGED << backups, cfg, scanResults, eligible, content, modified, todo,
                  fixed, failed, verifyVars, faultVars, disk0, rescanResults, applied >>

\* no strategy succeeded: nothing is written
SkipWrite ==
  /\ pc = "apply"
  /\ todo = <<>>
  /\ ~modified
  /\ fileQueue' = Tail(fileQueue)
  /\ pc' = AfterFile
  /\ UNCHANGED << disk, backups, cfg, scanResults, eligible, content, modified,
                  todo, fixed, failed, updatedFiles, verifyVars, faultVars,
                  disk0, rescanResults, writes, applied >>

\* writeFile(filePath, content); updatedFiles.add(filePath)
WriteFile ==
  /\ pc = "apply"
  /\ todo = <<>>
  /\ modified
  /\ disk' = [disk EXCEPT ![Head(fileQueue)] = content]
  /\ writes' = [writes EXCEPT ![Head(fileQueue)] = @ + 1]
  /\ updatedFiles' = IF Head(fileQueue) \in Range(updatedFiles) THEN updatedFiles
                     ELSE Append(updatedFiles, Head(fileQueue))
  /\ fileQueue' = Tail(fileQueue)
  /\ pc' = AfterFile
  /\ UNCHANGED << backups, cfg, scanResults, eligible, content, modified, todo,
                  fixed, failed, verifyVars, faultVars, disk0, rescanResults, applied >>

\* writeFile throws: the per-file catch block fails every finding of the
\* file, in the order the sort left them
WriteFileFails ==
  /\ pc = "apply"
  /\ todo = <<>>
  /\ modified
  /\ Fault("write", Head(fileQueue))
  /\ failed' = failed \o FileProcessingError(
                  sortedViolations(GroupOf(eligible, Head(fileQueue))))
  /\ fileQueue' = Tail(fileQueue)
  /\ pc' = AfterFile
  /\ UNCHANGED << disk, backups, cfg, scanResults, eligible, content, modified,
                  todo, fixed, updatedFiles, verifyVars, disk0, rescanResults, writes, applied >>

(***************************************************************************)
(* Verifier.verify()                                                       *)
(***************************************************************************)
\* no file was updated: the empty result
VerifyNothing ==
  /\ pc = "verify"
  /\ updatedFiles = <<>>
  /\ pc' = "done"
  /\ UNCHANGED << disk, backups, cfg, scanResults, eligible, fixVars,
                  verifyVars, faultVars, disk0, rescanResults, writes, applied >>

\* the re-scan with a fresh scanner (default options), and the loop over
\* fixResults.fixed
VerifyScan ==
  /\ pc = "verify"
  /\ updatedFiles # <<>>
  /\ LET res == scan(disk, cfg.order, FALSE)
     IN /\ newScan' = res
        /\ verified' = SelectSeq(fixed,
                         LAMBDA item : ~violationStillExists(res.violations,
                                                             item.violation))
  /\ vQueue' = updatedFiles
  /\ pc' = "verifyFile"
  /\ UNCHANGED << disk, backups, cfg, scanResults, eligible, fixVars,
                  newViolations, rollbacks, faultVars, disk0, rescanResults, writes, applied >>

\* readFile throws in the re-scan: verify() and run() reject
VerifyScanFails ==
  /\ pc = "verify"
  /\ updatedFiles # <<>>
  /\ \E f \in Range(cfg.order) : Fault("rescan", f)
  /\ pc' = "crashed"
  /\ UNCHANGED << disk, backups, cfg, scanResults, eligible, fixVars,
                  verifyVars, disk0, rescanResults, writes, applied >>

Introduced(file) ==
  findIntroducedViolations(FileViolations(scanResults, file),
                           FileViolations(newScan, file))

AfterVerifyFile == IF Len(vQueue) > 1 THEN "verifyFile" ELSE "rescan"

\* as VerifyKeep, but the backup of the file is deleted
VerifyKeep_Cleans ==
  /\ pc = "verifyFile"
  /\ Introduced(Head(vQueue)) = <<>>
  /\ backups' = [backups EXCEPT ![Head(vQueue)] = NoFile]
  /\ vQueue' = Tail(vQueue)
  /\ pc' = AfterVerifyFile
  /\ UNCHANGED << disk, cfg, scanResults, eligible, fixVars, newScan, verified,
                  newViolations, rollbacks, faultVars, disk0, rescanResults,
                  writes, applied >>

\* an updated file with no introduced finding is left as it is
VerifyKeep ==
  /\ pc = "verifyFile"
  /\ Introduced(Head(vQueue)) = <<>>
  /\ vQueue' = Tail(vQueue)
  /\ pc' = AfterVerifyFile
  /\ UNCHANGED << disk, backups, cfg, scanResults, eligible, fixVars, newScan,
                  verified, newViolations, rollbacks, faultVars, disk0, rescanResults, writes,
                  applied >>

\* as VerifyRollback, but the backup is not deleted
VerifyRollback_NoUnlink ==
  /\ pc = "verifyFile"
  /\ Introduced(Head(vQueue)) # <<>>
  /\ backups[Head(vQueue)] # NoFile
  /\ newViolations' = newViolations \o Introduced(Head(vQueue))
  /\ disk' = [disk EXCEPT ![Head(vQueue)] = backups[Head(vQueue)].content]
  /\ rollbacks' = Append(rollbacks,
                    [filePath |-> Head(vQueue),
                     reason |-> "Introduced new violations",
                     violationsIntroduced |-> Len(Introduced(Head(vQueue)))])
  /\ vQueue' = Tail(vQueue)
  /\ pc' = AfterVerifyFile
  /\ UNCHANGED << backups, cfg, scanResults, eligible, fixVars, newScan,
                  verified, faultVars, disk0, rescanResults, writes, applied >>

\* rollbackFile succeeds: copyFile(backup, file), unlink(backup)
VerifyRollback ==
  /\ pc = "verifyFile"
  /\ Introduced(Head(vQueue)) # <<>>
  /\ backups[Head(vQueue)] # NoFile
  /\ newViolations' = newViolations \o Introduced(Head(vQueue))
  /\ disk' = [disk EXCEPT ![Head(vQueue)] = backups[Head(vQueue)].content]
  /\ backups' = [backups EXCEPT ![Head(vQueue)] = NoFile]
  /\ rollbacks' = Append(rollbacks,
                    [filePath |-> Head(vQueue),
                     reason |-> "Introduced new violations",
                     violationsIntroduced |-> Len(Introduced(Head(vQueue)))])
  /\ vQueue' = Tail(vQueue)
  /\ pc' = AfterVerifyFile
  /\ UNCHANGED << cfg, scanResults, eligible, fixVars, newScan, verified,
                  faultVars, disk0, rescanResults, writes, applied >>

\* copyFile throws, because there is no backup or because the copy fails:
\* rollbackFile returns false
VerifyRollbackCopyFails ==
  /\ pc = "verifyFile"
  /\ Introduced(Head(vQueue)) # <<>>
  /\ IF backups[Head(vQueue)] = NoFile
     THEN UNCHANGED faultVars
     ELSE Fault("restore", Head(vQueue))
  /\ newViolations' = newViolations \o Introduced(Head(vQueue))
  /\ vQueue' = Tail(vQueue)
  /\ pc' = AfterVerifyFile
  /\ UNCHANGED << disk, backups, cfg, scanResults, eligible, fixVars, newScan,
                  verified, rollbacks, disk0, rescanResults, writes, applied >>

\* copyFile succeeds and unlink throws: rollbackFile returns false
VerifyRollbackUnlinkFails ==
  /\ pc = "verifyFile"
  /\ Introduced(Head(vQueue)) # <<>>
  /\ backups[Head(vQueue)] # NoFile
  /\ Fault("unlink", Head(vQueue))
  /\ newViolations' = newViolations \o Introduced(Head(vQueue))
  /\ disk' = [disk EXCEPT ![Head(vQueue)] = backups[Head(vQueue)].content]
  /\ vQueue' = Tail(vQueue)
  /\ pc' = AfterVerifyFile
  /\ UNCHANGED << backups, cfg, scanResults, eligible, fixVars, newScan,
                  verified, rollbacks, disk0, rescanResults, writes, applied >>

(***************************************************************************)
(* run(): the scan that follows verify() when files were updated, made     *)
(* with the scanner of the first scan                                      *)
(***************************************************************************)
Rescan ==
  /\ pc = "rescan"
  /\ rescanResults' = scan(disk, cfg.order, cfg.includeTestClasses)
  /\ pc' = "done"
  /\ UNCHANGED << disk, backups, cfg, scanResults, eligible, fixVars,
                  verifyVars, faultVars, disk0, writes, applied >>

\* readFile throws in that scan: run() rejects
RescanFails ==
  /\ pc = "rescan"
  /\ \E f \in Range(cfg.order) : Fault("scanAgain", f)
  /\ pc' = "crashed"
  /\ UNCHANGED << disk, backups, cfg, scanResults, eligible, fixVars,
                  verifyVars, disk0, writes, applied, rescanResults >>

Next ==
  \/ Scan
  \/ ScanFails
  \/ Classify
  \/ BackupFile
  \/ BackupFileFails
  \/ ReadFile
  \/ ReadFileFails
  \/ ApplyNext
  \/ SkipWrite
  \/ WriteFile
  \/ WriteFileFails
  \/ VerifyNothing
  \/ VerifyScan
  \/ VerifyScanFails
  \/ VerifyKeep
  \/ VerifyRollback
  \/ VerifyRollbackCopyFails
  \/ VerifyRollbackUnlinkFails
  \/ Rescan
  \/ RescanFails

Spec == Init /\ [][Next]_vars

(***************************************************************************)
(* ApexFixer.fix() called on its own: the caller passes the findings of a  *)
(* scan as they are, or with every finding marked fixable, and lists the   *)
(* files in directory order or in the reverse order.                       *)
(***************************************************************************)
FixModes == {"asScanned", "allFixable"}

Reverse(s) == [i \in 1..Len(s) |-> s[Len(s) + 1 - i]]

FixInputs(run, mode, reversed) ==
  LET order == IF reversed THEN Reverse(run.order) ELSE run.order
      vs == scan(run.files, order, run.includeTestClasses).violations
  IN IF mode = "allFixable"
     THEN [i \in 1..Len(vs) |-> [vs[i] EXCEPT !.autoFixable = TRUE]]
     ELSE vs

InitFix ==
  \E run \in InitialRuns : \E mode \in FixModes : \E reversed \in BOOLEAN :
    /\ run.autoFix
    /\ reversed => Len(run.order) > 1
    /\ disk = run.files
    /\ disk0 = run.files
    /\ backups = [f \in DOMAIN run.files |->
                    IF run.stale THEN FileWith(StaleContent) ELSE NoFile]
    /\ cfg = [order |-> run.order, autoFix |-> TRUE,
              includeTestClasses |-> run.includeTestClasses]
    /\ scanResults = scan(run.files, run.order, run.includeTestClasses)
    /\ eligible = FixInputs(run, mode, reversed)
    /\ fileQueue = GroupedFiles(FixInputs(run, mode, reversed))
    /\ pc = IF FixInputs(run, mode, reversed) = <<>> THEN "verify" ELSE "backup"
    /\ content = <<>>
    /\ modified = FALSE
    /\ todo = <<>>
    /\ fixed = <<>>
    /\ failed = <<>>
    /\ updatedFiles = <<>>
    /\ newScan = NoScan
    /\ rescanResults = NoScan
    /\ verified = <<>>
    /\ newViolations = <<>>
    /\ rollbacks = <<>>
    /\ vQueue = <<>>
    /\ faults = 0
    /\ writes = [f \in DOMAIN run.files |-> 0]
    /\ ioErrors = {}
    /\ applied = <<>>

NextFix ==
  \/ BackupFile
  \/ BackupFileFails
  \/ ReadFile
  \/ ReadFileFails
  \/ ApplyNext
  \/ SkipWrite
  \/ WriteFile
  \/ WriteFileFails

SpecFix == InitFix /\ [][NextFix]_vars

\* the loop over sortedViolations as a function of the file's own content
\* and findings: the working copy, the modified flag and the entries pushed
\* to fixed and failed
RECURSIVE FixLoop(_, _)
FixLoop(vs, acc) ==
  IF vs = <<>> THEN acc
  ELSE LET v == Head(vs)
           res == StrategyApply(acc.content, v)
       IN IF ~v.autoFixable
          THEN FixLoop(Tail(vs), acc)
          ELSE IF v.rule \in nonAutoFixableRules
          THEN FixLoop(Tail(vs),
                 [acc EXCEPT !.failed = Append(@, [violation |-> v,
                                  reason |-> "Rule not eligible for auto-fix"])])
          ELSE IF v.rule \notin StrategyRules
          THEN FixLoop(Tail(vs), acc)
          ELSE IF res.success
          THEN FixLoop(Tail(vs),
                 [acc EXCEPT !.content = res.content, !.modified = TRUE,
                             !.fixed = Append(@, [violation |-> v,
                                                  fixApplied |-> res.text])])
          ELSE FixLoop(Tail(vs),
                 [acc EXCEPT !.failed = Append(@, [violation |-> v,
                                                   reason |-> res.text])])

\* one iteration of the loop over the files, as a function of the file's
\* content, its findings and the I/O errors on the file itself
FileOutcome(lines, vs, readFails, writeFails) ==
  LET out == FixLoop(sortedViolations(vs),
                     [content |-> lines, modified |-> FALSE,
                      fixed |-> <<>>, failed |-> <<>>])
  IN IF readFails
     THEN [content |-> lines, updated |-> FALSE, fixed |-> <<>>,
           failed |-> FileProcessingError(vs)]
     ELSE IF out.modified /\ writeFails
     THEN [content |-> lines, updated |-> FALSE, fixed |-> out.fixed,
           failed |-> out.failed \o FileProcessingError(sortedViolations(vs))]
     ELSE [content |-> IF out.modified THEN out.content ELSE lines,
           updated |-> out.modified, fixed |-> out.fixed, failed |-> out.failed]

(***************************************************************************)
(* fix() and verify() for one finding of one file: the rules run on the    *)
(* file, one finding that has a strategy is handed to fix(), and verify()  *)
(* judges the result.                                                      *)
(***************************************************************************)
MaxLenOne == 3

MaxLenWindow == 12

AlphabetOne == {Proto("debugThenCode", FALSE, 0), Proto("codeThenDebug", FALSE, 0),
                Proto("debugOpen", FALSE, 0), Proto("debug", FALSE, 0),
                Proto("soqlOpen", FALSE, 0), Proto("plain", TRUE, 0),
                Proto("class", FALSE, 0), Proto("update", FALSE, 1)}

FixtureComplex == << Proto("method", FALSE, 0), Proto("branchy", FALSE, 1),
                     Proto("update", FALSE, 1) >>

\* a file of n lines: a statement on line i, an access check on line j if
\* j > 0, plain lines elsewhere
WindowFile(n, i, j, stmt) ==
  MkFile([m \in 1..n |-> IF m = i THEN Proto(stmt, FALSE, 1)
                         ELSE IF m = j THEN Proto("check", FALSE, 0)
                         ELSE Proto("plain", FALSE, 0)])

FilesOne ==
  {MkFile(a) : a \in SeqsUpTo(AlphabetOne, MaxLenOne)}
  \cup {MkFile(FixtureComplex)}
  \cup {WindowFile(n, i, j, stmt) :
          n \in 1..MaxLenWindow, i \in 1..MaxLenWindow, j \in 0..MaxLenWindow,
          stmt \in {"delete", "soql"}}

InitOne ==
  \E lines \in FilesOne :
    /\ disk = [f \in {"A.cls"} |-> lines]
    /\ disk0 = disk
    /\ backups = [f \in {"A.cls"} |-> NoFile]
    /\ cfg = [order |-> << "A.cls" >>, autoFix |-> TRUE,
              includeTestClasses |-> FALSE]
    /\ pc = "scan"
    /\ scanResults = NoScan
    /\ eligible = <<>>
    /\ fileQueue = <<>>
    /\ content = <<>>
    /\ modified = FALSE
    /\ todo = <<>>
    /\ fixed = <<>>
    /\ failed = <<>>
    /\ updatedFiles = <<>>
    /\ newScan = NoScan
    /\ rescanResults = NoScan
    /\ verified = <<>>
    /\ newViolations = <<>>
    /\ rollbacks = <<>>
    /\ vQueue = <<>>
    /\ faults = 0
    /\ writes = [f \in {"A.cls"} |-> 0]
    /\ ioErrors = {}
    /\ applied = <<>>

\* fix([violation]) for one fixable finding of the scan that has a strategy
FixOne ==
  /\ pc = "classify"
  /\ \E i \in 1..Len(scanResults.violations) :
       /\ scanResults.violations[i].autoFixable
       /\ scanResults.violations[i].rule \in StrategyRules
       /\ eligible' = << scanResults.violations[i] >>
       /\ fileQueue' = GroupedFiles(<< scanResults.violations[i] >>)
  /\ pc' = "backup"
  /\ UNCHANGED << disk, backups, cfg, scanResults, content, modified, todo,
                  fixed, failed, updatedFiles, verifyVars, faultVars, disk0,
                  rescanResults, writes, applied >>

NextOne ==
  \/ Scan
  \/ FixOne
  \/ BackupFile
  \/ ReadFile
  \/ ApplyNext
  \/ SkipWrite
  \/ WriteFile
  \/ VerifyNothing
  \/ VerifyScan
  \/ VerifyKeep
  \/ VerifyRollback
  \/ Rescan

SpecOne == InitOne /\ [][NextOne]_vars

(***************************************************************************)
(* Properties                                                              *)
(***************************************************************************)
FilesOnDisk == DOMAIN disk

\* the line a finding of the current content of a file sits on did not carry
\* a finding of that rule when the run started, or was inserted by a fix
IsNewMatch(file, n) ==
  LET l == disk[file][n.line]
  IN \/ l.id = 0
     \/ ~\E i \in 1..Len(scanResults.violations) :
          /\ scanResults.violations[i].filePath = file
          /\ scanResults.violations[i].rule = n.rule
          /\ scanResults.violations[i].line = l.id

HasNewMatch(file) ==
  \E i \in 1..Len(scanFile(file, disk[file])) :
     IsNewMatch(file, scanFile(file, disk[file])[i])

\* C1: once fix() and verify() have completed without an I/O failure, every
\* updated file either holds no rule match that its pre-fix content did not
\* hold, or is back to its pre-fix content.
C1_NoNewMatchOrRestored ==
  (pc = "done" /\ ioErrors = {}) =>
     \A f \in Range(updatedFiles) : disk[f] = disk0[f] \/ ~HasNewMatch(f)

\* the findings of the re-scan of a file that have no finding of the same
\* rule within LineTolerance lines in the first scan of that file
Regressions(file) ==
  {i \in 1..Len(newScan.violations) :
     /\ newScan.violations[i].filePath = file
     /\ \A j \in 1..Len(scanResults.violations) :
          (/\ scanResults.violations[j].filePath = file
           /\ scanResults.violations[j].rule = newScan.violations[i].rule)
          => \/ scanResults.violations[j].line - newScan.violations[i].line > LineTolerance
             \/ newScan.violations[i].line - scanResults.violations[j].line > LineTolerance}

RollbackEntries(file) == {i \in 1..Len(rollbacks) : rollbacks[i].filePath = file}

NoIoErrorOn(file) == \A e \in ioErrors : e[2] # file

\* C2 as stated: whenever verify() has found an introduced regression in an
\* updated file, then on return the live file holds its pre-fix content, its
\* backup is gone, and rollbacks holds exactly one entry for the file,
\* carrying the number of regressions.
C2_Original ==
  pc = "done" =>
    \A f \in Range(updatedFiles) :
      Regressions(f) # {} =>
         /\ disk[f] = disk0[f]
         /\ backups[f] = NoFile
         /\ Cardinality(RollbackEntries(f)) = 1
         /\ \A i \in RollbackEntries(f) :
              rollbacks[i].violationsIntroduced = Cardinality(Regressions(f))

\* C2 (amended): when verify() has found an introduced regression in an
\* updated file and no I/O operation on that file failed (the backup copy in
\* fix(), the restore and the delete in verify()), then on return the live
\* file holds its pre-fix content, its backup is gone, and rollbacks holds
\* exactly one entry for the file, carrying the number of regressions.
C2_RollbackRestores ==
  pc = "done" =>
    \A f \in Range(updatedFiles) :
      (Regressions(f) # {} /\ NoIoErrorOn(f)) =>
         /\ disk[f] = disk0[f]
         /\ backups[f] = NoFile
         /\ Cardinality(RollbackEntries(f)) = 1
         /\ \A i \in RollbackEntries(f) :
              rollbacks[i].violationsIntroduced = Cardinality(Regressions(f))

\* a run that rolled a file back whose fixed content differed from the original
C2_Witness ==
  /\ pc = "done"
  /\ \E f \in Range(updatedFiles) :
       /\ Regressions(f) # {}
       /\ NoIoErrorOn(f)
       /\ RollbackEntries(f) # {}
       /\ writes[f] = 1
       /\ content # disk0[f]

\* verify() has dealt with the file, or is over
VerifyFinished(file) ==
  \/ pc = "done"
  \/ newScan # NoScan /\ file \notin Range(vQueue)

BackupCopied(file) == << "backup", file >> \notin ioErrors

\* C3 as stated: for every file the fixer has written, a backup with the
\* pre-fix content is there at every step until verify() has dealt with the
\* file.
C3_Original ==
  \A f \in FilesOnDisk :
    (writes[f] > 0 /\ ~VerifyFinished(f)) => backups[f] = FileWith(disk0[f])

\* C3 (amended): for every file the fixer writes after a backup copy that
\* succeeded, a backup with the pre-fix content is there when the write
\* happens and at every step until verify() has dealt with the file; and a
\* backup disappears only in a step that records a rollback of its file.
C3_BackupLifetime ==
  /\ [](\A f \in FilesOnDisk :
          (writes[f] > 0 /\ BackupCopied(f) /\ ~VerifyFinished(f))
             => backups[f] = FileWith(disk0[f]))
  /\ [][\A f \in FilesOnDisk :
          /\ (writes'[f] > writes[f] /\ BackupCopied(f))
               => backups[f] = FileWith(disk0[f])
          /\ (backups[f] # NoFile /\ backups'[f] = NoFile)
               => /\ Len(rollbacks') = Len(rollbacks) + 1
                  /\ rollbacks'[Len(rollbacks')].filePath = f]_vars

\* a written file whose backup is still there while verify() looks at it
C3_Witness ==
  /\ pc = "verifyFile"
  /\ \E f \in Range(vQueue) :
       writes[f] = 1 /\ BackupCopied(f) /\ backups[f] = FileWith(disk0[f])
       /\ disk[f] # disk0[f]

\* every eligible finding of the file is a DML finding the CRUD strategy
\* fixes by inserting lines, and no two of them share a line
InsertionOnly(file) ==
  LET vs == GroupOf(eligible, file)
  IN /\ Len(vs) > 0
     /\ \A i \in 1..Len(vs) :
          /\ vs[i].rule = "ApexCRUDViolation"
          /\ vs[i].op \in DmlOps
          /\ vs[i].sobject # NoObj
     /\ \A i, j \in 1..Len(vs) : i # j => vs[i].line # vs[j].line

\* the content fix() wrote is on disk and verify() has not touched it yet
JustWritten(file) ==
  writes[file] = 1 /\ pc \in {"backup", "read", "apply", "verify"}

\* C4: for a file whose eligible findings sit on pairwise distinct lines and
\* are all fixed by line insertion, the strategies run in descending line
\* order, and in the written content each target line stands at its original
\* number plus GuardLen times the number of targets at or above it, right
\* below its own guard lines.
C4_InsertionOffsets ==
  \A f \in FilesOnDisk :
    (JustWritten(f) /\ InsertionOnly(f)) =>
      LET vs == GroupOf(eligible, f)
      IN /\ \A i \in 1..Len(vs) :
              LET v == vs[i]
                  p == v.line + GuardLen *
                         Cardinality({j \in 1..Len(vs) : vs[j].line <= v.line})
              IN /\ p <= Len(disk[f])
                 /\ disk[f][p] = disk0[f][v.line]
                 /\ disk[f][p - 3].k = GuardKind(v.op) /\ disk[f][p - 3].id = 0
                 /\ disk[f][p - 2].k = "guardThrow" /\ disk[f][p - 2].id = 0
                 /\ disk[f][p - 1].k = "guardClose" /\ disk[f][p - 1].id = 0
         /\ \A i, j \in 1..Len(applied) :
              (/\ i < j
               /\ applied[i].violation.filePath = f
               /\ applied[j].violation.filePath = f)
              => applied[i].violation.line > applied[j].violation.line

\* three DML statements of one file, two lines apart, each guarded
C4_Witness ==
  \E f \in FilesOnDisk :
    /\ JustWritten(f)
    /\ InsertionOnly(f)
    /\ Len(GroupOf(eligible, f)) = 3
    /\ Len(disk[f]) = Len(disk0[f]) + 3 * GuardLen

\* a finding of the same rule and file within LineTolerance lines
NearMatch(vs, v) ==
  \E j \in 1..Len(vs) :
    /\ vs[j].rule = v.rule
    /\ vs[j].filePath = v.filePath
    /\ vs[j].line - v.line <= LineTolerance
    /\ v.line - vs[j].line <= LineTolerance

\* C5: verify() puts a fixed item in verified if and only if the fresh
\* post-fix scan holds no finding of the same rule and file within
\* LineTolerance lines of the fixed finding's line (when verify() returns
\* early, the scan is the one it would have made of the files as they are).
C5_VerifiedIff ==
  /\ (pc \in {"verifyFile", "done"} /\ updatedFiles # <<>>) =>
        \A i \in 1..Len(fixed) :
          (fixed[i] \in Range(verified))
             <=> ~NearMatch(newScan.violations, fixed[i].violation)
  /\ (pc = "done" /\ updatedFiles = <<>>) =>
        \A i \in 1..Len(fixed) :
          (fixed[i] \in Range(verified))
             <=> ~NearMatch(scan(disk, cfg.order, FALSE).violations,
                            fixed[i].violation)

\* verify() has verified one fixed item and refused another
C5_Witness ==
  /\ pc = "done"
  /\ updatedFiles # <<>>
  /\ verified # <<>>
  /\ \E i \in 1..Len(fixed) : fixed[i] \notin Range(verified)

AllRegressions == UNION {Regressions(f) : f \in Range(updatedFiles)}

\* C6: the findings verify() reports as introduced are exactly the post-fix
\* findings of the updated files for which the pre-fix findings of the same
\* file hold no finding of the same rule within LineTolerance lines.
C6_IntroducedExactly ==
  (pc = "done" /\ updatedFiles # <<>>) =>
     /\ Range(newViolations) = {newScan.violations[i] : i \in AllRegressions}
     /\ Len(newViolations) = Cardinality(AllRegressions)

\* verify() has reported some post-fix findings of a file and not others
C6_Witness ==
  /\ pc = "done"
  /\ newViolations # <<>>
  /\ \E i \in 1..Len(newScan.violations) :
       /\ newScan.violations[i].filePath \in Range(updatedFiles)
       /\ newScan.violations[i] \notin Range(newViolations)

FixOver == {"verify", "verifyFile", "rescan", "done"}

SomeSuccess(file) ==
  \E i \in 1..Len(applied) :
    applied[i].violation.filePath = file /\ applied[i].success

WriteFailed(file) == << "write", file >> \in ioErrors

\* C7 as stated: fix() writes a file at most once; a file is written and
\* listed in updatedFiles if and only if a strategy succeeded for one of its
\* findings; a file for which none succeeded keeps its content.
C7_Original ==
  \A f \in FilesOnDisk :
    /\ writes[f] <= 1
    /\ pc \in FixOver =>
         /\ (writes[f] = 1) <=> (f \in Range(updatedFiles))
         /\ (writes[f] = 1) <=> SomeSuccess(f)
         /\ ~SomeSuccess(f) => disk[f] = disk0[f]

\* C7 (amended): fix() writes a file at most once; a file is written and
\* listed in updatedFiles if and only if a strategy succeeded for one of its
\* findings and the write itself did not fail; a file for which no strategy
\* succeeded, or whose write failed, keeps its content.
C7_WrittenIffFixed ==
  \A f \in FilesOnDisk :
    /\ writes[f] <= 1
    /\ pc \in FixOver =>
         /\ (writes[f] = 1) <=> (f \in Range(updatedFiles))
         /\ (writes[f] = 1) <=> (SomeSuccess(f) /\ ~WriteFailed(f))
         /\ (~SomeSuccess(f) \/ WriteFailed(f)) => disk[f] = disk0[f]

\* fix() is over: one file was written, another was processed and left alone
C7_Witness ==
  /\ pc = "verify"
  /\ \E f, g \in Range(GroupedFiles(eligible)) :
       /\ writes[f] = 1 /\ SomeSuccess(f) /\ disk[f] # disk0[f]
       /\ writes[g] = 0 /\ ~SomeSuccess(g)
       /\ \E i \in 1..Len(applied) : applied[i].violation.filePath = g

IsInjection(v) == v.rule = "ApexSOQLInjection"

\* C8: an ApexSOQLInjection finding is never among the eligible findings,
\* never in fixResult.fixed, and no strategy is ever applied for one.
C8_InjectionNeverFixed ==
  /\ \A i \in 1..Len(eligible) : ~IsInjection(eligible[i])
  /\ \A i \in 1..Len(fixed) : ~IsInjection(fixed[i].violation)
  /\ \A i \in 1..Len(applied) : ~IsInjection(applied[i].violation)
  /\ \A i \in 1..Len(todo) : ~IsInjection(todo[i])

\* a run that found an injection finding in a file and fixed that file
C8_Witness ==
  /\ pc = "done"
  /\ \E i \in 1..Len(scanResults.violations) :
       /\ IsInjection(scanResults.violations[i])
       /\ writes[scanResults.violations[i].filePath] = 1

TestFiles == {f \in FilesOnDisk : isTestClass(f, disk0[f])}

\* the first scan has returned its result
ScanReturned == pc # "scan" /\ \A e \in ioErrors : e[1] # "scan"

\* the findings the rules report on the original content of a file
RuleFindings(file) ==
  UNION {Range(RuleCheck(RuleOrder[r], file, disk0[file])) : r \in 1..Len(RuleOrder)}

Reported(file, v) ==
  \E i \in 1..Len(scanResults.violations) :
    /\ scanResults.violations[i].filePath = file
    /\ scanResults.violations[i].rule = v.rule
    /\ scanResults.violations[i].line = v.line
    /\ scanResults.violations[i].isTestCode
    /\ ~scanResults.violations[i].autoFixable

NeverFixed(file) ==
  /\ \A i \in 1..Len(eligible) : eligible[i].filePath # file
  /\ \A i \in 1..Len(applied) : applied[i].violation.filePath # file
  /\ writes[file] = 0
  /\ disk[file] = disk0[file]

\* C9 as stated: the findings of a test-code file are always in the scan
\* output, and none reaches a strategy nor is the file written.
C9_Original ==
  ScanReturned =>
    \A f \in TestFiles :
      /\ \A v \in RuleFindings(f) : Reported(f, v)
      /\ NeverFixed(f)

\* C9 (amended): the findings of a test-code file are in the scan output,
\* marked as test code and not fixable, when the scan runs with
\* includeTestClasses, and absent from it otherwise; in both cases none
\* reaches a strategy and the file is not written.
C9_TestCodeNeverFixed ==
  ScanReturned =>
    \A f \in TestFiles :
      /\ cfg.includeTestClasses => \A v \in RuleFindings(f) : Reported(f, v)
      /\ ~cfg.includeTestClasses =>
           \A i \in 1..Len(scanResults.violations) :
              scanResults.violations[i].filePath # f
      /\ NeverFixed(f)

\* a finished run that reported a DML finding of a test class and fixed
\* another file
C9_Witness ==
  /\ pc = "done"
  /\ cfg.includeTestClasses
  /\ \E f \in TestFiles :
       \E v \in RuleFindings(f) : v.autoFixable /\ Reported(f, v)
  /\ \E g \in FilesOnDisk : writes[g] = 1

FailedAsFileError(v) ==
  \E i \in 1..Len(failed) :
    failed[i].violation = v /\ failed[i].reason = "File processing error"

Accounted(v) ==
  \/ \E i \in 1..Len(fixed) : fixed[i].violation = v
  \/ \E i \in 1..Len(failed) : failed[i].violation = v

\* C10 as stated: when reading, writing or backing up a file fails in fix(),
\* every finding of the file is recorded as failed with a file-processing
\* reason, and the other files are still processed.
C10_Original ==
  (pc \in FixOver /\ cfg.autoFix) =>
    /\ \A e \in ioErrors :
         e[1] \in {"read", "write", "backup"} =>
           \A v \in Range(GroupOf(eligible, e[2])) : FailedAsFileError(v)
    /\ \A v \in Range(eligible) : Accounted(v)

\* C10 (amended): when reading or writing a file fails in fix(), every
\* finding of the file is recorded as failed with a file-processing reason,
\* and the other files are still processed; a failed backup copy is only
\* logged and the file is processed as usual.
C10_IoErrorIsolated ==
  (pc \in FixOver /\ cfg.autoFix) =>
    /\ \A e \in ioErrors :
         e[1] \in {"read", "write"} =>
           \A v \in Range(GroupOf(eligible, e[2])) : FailedAsFileError(v)
    /\ \A v \in Range(eligible) : Accounted(v)

\* reading the first file failed, and the second file was fixed and written
C10_Witness ==
  /\ pc = "verify"
  /\ Len(GroupedFiles(eligible)) = 2
  /\ << "read", GroupedFiles(eligible)[1] >> \in ioErrors
  /\ writes[GroupedFiles(eligible)[2]] = 1

\* the I/O operation fails in this step
FailsNow(op, file) == << op, file >> \in ioErrors' /\ << op, file >> \notin ioErrors

\* C11 as stated: when the restore or the delete of a rollback fails, the
\* live file keeps the content fix() wrote, no rollback entry is recorded,
\* verify() does not throw and goes on with the remaining updated files.
C11_Original ==
  [][\A f \in FilesOnDisk :
       (FailsNow("restore", f) \/ FailsNow("unlink", f)) =>
          /\ disk'[f] = disk[f]
          /\ rollbacks' = rollbacks
          /\ vQueue' = Tail(vQueue)
          /\ pc' = AfterVerifyFile]_vars

\* C12 as stated: a file that cannot be read does not abort a scan: no error
\* leaves the scanner, and the scan result holds the findings of every other
\* file.
C12_Original ==
  /\ pc # "crashed"
  /\ pc # "scan" =>
       \A f \in FilesOnDisk :
         (<< "scan", f >> \notin ioErrors
            /\ ~FileSkipped(f, disk0[f], cfg.includeTestClasses))
         => \A v \in Range(scanFile(f, disk0[f])) :
              v \in Range(scanResults.violations)

\* where prioritize() has put a finding: tier, rule group, file group, position
Placements(tiers, v) ==
  {p \in UNION {UNION {UNION {
        {<< t, g, f, k >> : k \in 1..Len(tiers[t][g].files[f].violations)} :
           f \in 1..Len(tiers[t][g].files)} :
           g \in 1..Len(tiers[t])} :
           t \in Range(TierKeys)} :
     tiers[p[1]][p[2]].files[p[3]].violations[p[4]] = v}

\* the number of findings prioritize() holds, over all tiers and groups
PlacedCount(tiers) ==
  Cardinality(UNION {UNION {UNION {
        {<< t, g, f, k >> : k \in 1..Len(tiers[t][g].files[f].violations)} :
           f \in 1..Len(tiers[t][g].files)} :
           g \in 1..Len(tiers[t])} :
           t \in Range(TierKeys)})

\* C13: prioritize() places every finding of the scan in exactly one tier,
\* one rule group and one file group (those of its rule and of its file), no
\* rule or file has two groups in a tier, and the groups together hold as
\* many findings as the scan reported: none dropped, none duplicated.
C13_TierPartition ==
  pc = "classify" =>
    LET tiers == prioritize(scanResults)
        vs == scanResults.violations
    IN /\ \A i \in 1..Len(vs) :
            /\ Cardinality(Placements(tiers, vs[i])) = 1
            /\ \A p \in Placements(tiers, vs[i]) :
                 /\ tiers[p[1]][p[2]].rule = vs[i].rule
                 /\ tiers[p[1]][p[2]].files[p[3]].filePath = vs[i].filePath
       /\ PlacedCount(tiers) = Len(vs)
       /\ \A t \in Range(TierKeys) :
            /\ \A g, h \in 1..Len(tiers[t]) :
                 tiers[t][g].rule = tiers[t][h].rule => g = h
            /\ \A g \in 1..Len(tiers[t]) : \A f, h \in 1..Len(tiers[t][g].files) :
                 tiers[t][g].files[f].filePath = tiers[t][g].files[h].filePath
                    => f = h

\* a scan with findings in two tiers, a rule found in two files, and a file
\* with two findings of one rule
C13_Witness ==
  /\ pc = "classify"
  /\ LET tiers == prioritize(scanResults)
     IN /\ \E t, u \in Range(TierKeys) : t # u /\ tiers[t] # <<>> /\ tiers[u] # <<>>
        /\ \E t \in Range(TierKeys) : \E g \in 1..Len(tiers[t]) :
             Len(tiers[t][g].files) = 2
        /\ \E t \in Range(TierKeys) : \E g \in 1..Len(tiers[t]) :
             \E f \in 1..Len(tiers[t][g].files) :
               Len(tiers[t][g].files[f].violations) = 2

\* the rule groups of all tiers, as << tier, group >>
AllGroups(tiers) ==
  UNION {{<< t, tiers[t][g] >> : g \in 1..Len(tiers[t])} : t \in Range(TierKeys)}

\* C14: in the result of prioritize(), each tier's occurrence count is the
\* sum of its rule groups' counts, each rule group's count is the sum of its
\* per-file counts, totalOccurrences is the number of findings of the scan,
\* totalFindings is the number of distinct (tier, rule, file) triples, and a
\* rule group's file count never exceeds its occurrence count.
C14_SummaryTotals ==
  pc = "classify" =>
    LET tiers == prioritize(scanResults)
        summary == calculateSummary(tiers)
        vs == scanResults.violations
    IN /\ summary.criticalOccurrences = SumOver(summary.criticalRules, "occurrences")
       /\ summary.importantOccurrences = SumOver(summary.importantRules, "occurrences")
       /\ summary.cleanupOccurrences = SumOver(summary.cleanupRules, "occurrences")
       /\ \A tg \in AllGroups(tiers) :
            /\ tg[2].count = SumOver(tg[2].files, "count")
            /\ tg[2].count = Cardinality({i \in 1..Len(vs) :
                                TierOf(vs[i]) = tg[1] /\ vs[i].rule = tg[2].rule})
            /\ tg[2].fileCount <= tg[2].count
            /\ tg[2].fileCount = Cardinality({vs[i].filePath : i \in
                                   {j \in 1..Len(vs) : TierOf(vs[j]) = tg[1]
                                                       /\ vs[j].rule = tg[2].rule}})
       /\ \A e \in Range(summary.criticalRules) \cup Range(summary.importantRules)
                   \cup Range(summary.cleanupRules) : e.findings <= e.occurrences
       /\ summary.totalOccurrences = Len(vs)
       /\ summary.totalFindings =
            Cardinality({<< TierOf(vs[i]), vs[i].rule, vs[i].filePath >> :
                           i \in 1..Len(vs)})

\* a scan whose summary counts fewer findings than occurrences, over two
\* tiers and two files
C14_Witness ==
  /\ pc = "classify"
  /\ LET summary == calculateSummary(prioritize(scanResults))
     IN /\ summary.totalFindings < summary.totalOccurrences
        /\ summary.criticalFindings > 0
        /\ summary.cleanupFindings > 1
        /\ \E e \in Range(summary.cleanupRules) : e.findings = 2

\* the files verify() scanned again with their content unchanged: not
\* updated by fix(), and not skipped as test classes
RescannedUnchanged ==
  {f \in FilesOnDisk : f \notin Range(updatedFiles) /\ f \notin TestFiles}

C16_ScanOnlyChangesNothing ==
  /\ [](~cfg.autoFix =>
          /\ disk = disk0
          /\ \A f \in FilesOnDisk : writes[f] = 0
          /\ pc \in {"scan", "classify", "done", "crashed"}
          /\ fixed = <<>> /\ failed = <<>> /\ updatedFiles = <<>>
          /\ applied = <<>>
          /\ newScan = NoScan /\ verified = <<>> /\ rollbacks = <<>>)
  /\ [][~cfg.autoFix => (disk' = disk /\ backups' = backups)]_vars

\* a finished run with auto-fix disabled that had findings eligible for a fix
C16_Witness ==
  /\ pc = "done"
  /\ ~cfg.autoFix
  /\ eligible # <<>>

\* a DML finding with a resolvable entity name, on a given line
DmlFinding(line, op) ==
  Finding("ApexCRUDViolation", "Critical", "A.cls", line, 1, TRUE, op, "acc")

\* the first line of the guard of each operation
ExpectedGuard(op) ==
  CASE op = "insert" -> "guardIf_insert"
    [] op = "update" -> "guardIf_update"
    [] op = "delete" -> "guardIf_delete"
    [] op = "upsert" -> "guardIf_upsert"

\* C17: applied to any working copy of fix(), for a DML finding with a
\* resolvable entity name on any line of it, the CRUD strategy succeeds and
\* returns the content with the three guard lines of the finding's operation
\* inserted right before the target line, each with the indentation of the
\* target line; the target line and all other lines are unchanged.
C17_GuardInsertedBeforeTarget ==
  pc = "apply" =>
    \A n \in 1..Len(content) : \A op \in DmlOps :
      LET res == CRUDFixApply(content, DmlFinding(n, op))
      IN /\ res.success
         /\ Len(res.content) = Len(content) + GuardLen
         /\ \A i \in 1..(n - 1) : res.content[i] = content[i]
         /\ \A i \in n..Len(content) : res.content[i + GuardLen] = content[i]
         /\ res.content[n].k = ExpectedGuard(op)
         /\ res.content[n + 1].k = "guardThrow"
         /\ res.content[n + 2].k = "guardClose"
         /\ \A i \in n..(n + 2) : res.content[i].ind = content[n].ind

\* fix() has just guarded an indented delete statement that is not the first
\* line of its file
C17_Witness ==
  /\ pc = "apply"
  /\ applied # <<>>
  /\ LET a == applied[Len(applied)]
         n == a.violation.line
     IN /\ a.success
        /\ a.violation.rule = "ApexCRUDViolation"
        /\ a.violation.op = "delete"
        /\ n > 1
        /\ a.target.ind = 1
        /\ content[n].k = "guardIf_delete" /\ content[n].ind = 1
        /\ content[n + GuardLen] = a.target

\* C18: applied to any working copy of fix(), the whitespace strategy
\* succeeds for every line number of the content and returns the content
\* with the trailing whitespace of that one line removed, every other line
\* and the line count unchanged; for a line number out of range it fails and
\* returns no content.
C18_TrimOnlyTarget ==
  pc = "apply" =>
    \A n \in 0..(Len(content) + 1) :
      LET res == WhitespaceFixApply(content,
                   Finding("NoTrailingWhitespace", "Info", "A.cls", n, 1, TRUE,
                           "none", NoObj))
      IN IF n \in 1..Len(content)
         THEN /\ res.success
              /\ Len(res.content) = Len(content)
              /\ \A i \in 1..Len(content) : i # n => res.content[i] = content[i]
              /\ ~res.content[n].ws
              /\ res.content[n].k = content[n].k
              /\ res.content[n].ind = content[n].ind
              /\ res.content[n].id = content[n].id
         ELSE ~res.success /\ res.content = <<>>

\* fix() has just trimmed one line of a file that has another line with
\* trailing whitespace
C18_Witness ==
  /\ pc = "apply"
  /\ applied # <<>>
  /\ LET a == applied[Len(applied)]
     IN /\ a.success
        /\ a.violation.rule = "NoTrailingWhitespace"
        /\ a.target.ws
        /\ ~content[a.violation.line].ws
        /\ \E i \in 1..Len(content) : content[i].ws

\* C19 as stated: whenever fix() applies a strategy, the line of the working
\* copy at the finding's recorded line number is the line the finding was
\* detected on.
C19_Original ==
  \A i \in 1..Len(applied) :
    applied[i].target.id = applied[i].violation.line

\* C20: a step of verify() changes a live file or a .backup file only for the
\* updated file it is dealing with, and only when that file has an
\* introduced regression: an updated file without one keeps its fixed
\* content and its backup, and the files that were not updated are left
\* alone.
C20_VerifyFrame ==
  [][(pc = "verify" \/ pc = "verifyFile") =>
       \A f \in FilesOnDisk :
         (disk'[f] # disk[f] \/ backups'[f] # backups[f]) =>
            /\ pc = "verifyFile"
            /\ f = Head(vQueue)
            /\ f \in Range(updatedFiles)
            /\ Regressions(f) # {}]_vars

\* verify() is over; an updated file without regression holds its fixed
\* content next to its backup, and another file was not updated
C20_Witness ==
  /\ pc = "rescan"
  /\ \E f, g \in FilesOnDisk :
       /\ f \in Range(updatedFiles)
       /\ Regressions(f) = {}
       /\ disk[f] # disk0[f]
       /\ backups[f] = FileWith(disk0[f])
       /\ g \notin Range(updatedFiles)
       /\ disk[g] = disk0[g]

\* a finding marked fixable whose rule is excluded from auto-fix by policy
ExcludedFixable(v) ==
  /\ v.autoFixable
  /\ v.rule \in {"ApexSOQLInjection", "CognitiveComplexity",
                 "OperationWithLimitsInLoop"}

FailedNotEligible(v) ==
  \E i \in 1..Len(failed) :
    failed[i].violation = v /\ failed[i].reason = "Rule not eligible for auto-fix"

NoStrategyFor(v) == \A i \in 1..Len(applied) : applied[i].violation # v

\* a strategy is applied, among the rules of the Critical and Important
\* tiers, to CRUD and sharing findings only
OnlyNamedExceptions ==
  \A i \in 1..Len(applied) :
    TierOf(applied[i].violation) \in {"TIER1_CRITICAL", "TIER2_IMPORTANT"}
      => applied[i].violation.rule \in {"ApexCRUDViolation", "ApexSharingViolation"}

\* C21 as stated: when fix() has returned, every finding marked fixable whose
\* rule is excluded by policy is in failed with the not-eligible reason and
\* no strategy was invoked for it; among the rules of the Critical and
\* Important tiers a strategy is applied to CRUD and sharing findings only.
C21_Original ==
  /\ pc = "verify" =>
       \A i \in 1..Len(eligible) :
         ExcludedFixable(eligible[i]) =>
            FailedNotEligible(eligible[i]) /\ NoStrategyFor(eligible[i])
  /\ OnlyNamedExceptions

\* C21 (amended): when fix() has returned, every finding marked fixable whose
\* rule is excluded by policy, in a file that fix() could read, is in failed
\* with the not-eligible reason, and no strategy was invoked for any such
\* finding; among the rules of the Critical and Important tiers a strategy
\* is applied to CRUD and sharing findings only.
C21_ExcludedRulesNotFixed ==
  /\ pc = "verify" =>
       \A i \in 1..Len(eligible) :
         ExcludedFixable(eligible[i]) =>
            /\ << "read", eligible[i].filePath >> \notin ioErrors
                 => FailedNotEligible(eligible[i])
            /\ NoStrategyFor(eligible[i])
  /\ OnlyNamedExceptions

\* fix() has returned: it refused a complexity finding marked fixable and
\* applied the CRUD strategy in the same file
C21_Witness ==
  /\ pc = "verify"
  /\ \E i \in 1..Len(eligible) :
       /\ ExcludedFixable(eligible[i])
       /\ eligible[i].rule = "CognitiveComplexity"
       /\ FailedNotEligible(eligible[i])
       /\ \E j \in 1..Len(applied) :
            /\ applied[j].success
            /\ applied[j].violation.rule = "ApexCRUDViolation"
            /\ applied[j].violation.filePath = eligible[i].filePath

\* the step applies a strategy, and the strategy fails
StrategyFailsNow ==
  /\ Len(applied') = Len(applied) + 1
  /\ ~applied'[Len(applied')].success

\* every finding handed to fix() that has a strategy, in a file fix() could
\* read, has had its strategy applied
AllStrategiesTried ==
  \A i \in 1..Len(eligible) :
    (/\ eligible[i].autoFixable
     /\ eligible[i].rule \in {"ApexCRUDViolation", "ApexSharingViolation",
                              "AvoidDebugStatements", "NoTrailingWhitespace"}
     /\ << "read", eligible[i].filePath >> \notin ioErrors)
    => \E j \in 1..Len(applied) : applied[j].violation = eligible[i]

\* C22: a step of fix() in which a strategy fails appends the finding to
\* failed with the strategy's reason, leaves the working copy and the
\* modified flag as they were, and stays in the loop with the remaining
\* findings and files still to come; and when fix() returns, the strategy of
\* every finding of every readable file has been applied.
C22_StrategyFailureIsolated ==
  /\ [][StrategyFailsNow =>
          /\ content' = content
          /\ modified' = modified
          /\ fixed' = fixed
          /\ Len(failed') = Len(failed) + 1
          /\ failed'[Len(failed')].violation = Head(todo)
          /\ failed'[Len(failed')].reason # "File processing error"
          /\ todo' = Tail(todo)
          /\ fileQueue' = fileQueue
          /\ pc' = "apply"]_vars
  /\ [](pc = "verify" => AllStrategiesTried)

\* fix() has returned: a strategy failed for one finding, then one succeeded
\* for another finding of the same file, then one for a finding of the next
\* file
C22_Witness ==
  /\ pc = "verify"
  /\ \E i, j, k \in 1..Len(applied) :
       /\ i < j /\ j < k
       /\ ~applied[i].success
       /\ applied[j].success
       /\ applied[j].violation.filePath = applied[i].violation.filePath
       /\ applied[k].success
       /\ applied[k].violation.filePath # applied[i].violation.filePath

\* files whose backup copy failed while reading and writing them did not
BackupOnlyFailed ==
  {f \in FileNames : /\ << "backup", f >> \in ioErrors
                     /\ << "read", f >> \notin ioErrors
                     /\ << "write", f >> \notin ioErrors}

\* C23: when fix() returns, for every file whose backup copy failed (and
\* nothing else): the strategy of each of its findings has been applied; if
\* one succeeded the file was written once and is listed in updatedFiles; and
\* each of its entries in failed comes from the policy check or from a
\* strategy that failed, never from the file-processing catch block.
C23_BackupFailureNonFatal ==
  pc = "verify" =>
    \A f \in BackupOnlyFailed :
      /\ \A i \in 1..Len(eligible) :
           (/\ eligible[i].filePath = f
            /\ eligible[i].autoFixable
            /\ eligible[i].rule \in StrategyRules)
           => \E j \in 1..Len(applied) : applied[j].violation = eligible[i]
      /\ (\E j \in 1..Len(applied) :
            applied[j].success /\ applied[j].violation.filePath = f)
         => /\ f \in Range(updatedFiles)
            /\ writes[f] = 1
      /\ \A i \in 1..Len(failed) :
           failed[i].violation.filePath = f
           => /\ failed[i].reason # "File processing error"
              /\ \/ failed[i].violation.rule \in nonAutoFixableRules
                 \/ \E j \in 1..Len(applied) :
                      /\ applied[j].violation = failed[i].violation
                      /\ ~applied[j].success

\* fix() has returned: the backup copy of a file failed, and the file was
\* rewritten with a fix all the same
C23_Witness ==
  /\ pc = "verify"
  /\ \E f \in BackupOnlyFailed :
       /\ f \in Range(updatedFiles)
       /\ disk[f] # disk0[f]
       /\ \E i \in 1..Len(fixed) : fixed[i].violation.filePath = f

\* the CRUD rule reported a finding on line i of the scanned file
CrudReported(file, i) ==
  \E n \in 1..Len(scanResults.violations) :
    /\ scanResults.violations[n].rule = "ApexCRUDViolation"
    /\ scanResults.violations[n].filePath = file
    /\ scanResults.violations[n].line = i

\* some line from i - CrudRange to i + CrudRange inclusive, clipped to the
\* file, holds an access check
CheckWithinInclusive(lines, i) ==
  \E j \in Max(1, i - CrudRange)..Min(Len(lines), i + CrudRange) :
    MatchesSecurityCheck(lines[j])

\* C24: once the scan has run, a DML or bracketed-query statement on line i
\* has a CRUD finding if and only if no line from i-10 to i+10 inclusive
\* holds an access check.
C24_Original ==
  pc = "classify" =>
    \A f \in DOMAIN disk : \A i \in 1..Len(disk[f]) :
      (DmlMatches(disk[f][i]) + SoqlMatches(disk[f][i]) > 0)
      => (CrudReported(f, i) <=> ~CheckWithinInclusive(disk[f], i))

\* the entries of a result list that belong to one file
EntriesOf(entries, f) == SelectSeq(entries, LAMBDA e : e.violation.filePath = f)

StrategySucceedsNow ==
  /\ Len(applied') = Len(applied) + 1
  /\ applied'[Len(applied')].success

\* the rule of finding v, run on lines, reports the line that carries id
ReportsStatement(lines, v, id) ==
  \E n \in 1..Len(lines) :
    /\ lines[n].id = id
    /\ \E m \in 1..Len(RuleCheck(v.rule, v.filePath, lines)) :
         RuleCheck(v.rule, v.filePath, lines)[m].line = n

\* C26: whenever a strategy returns success for a finding of its rule, the
\* rule run on the returned content no longer reports the targeted
\* statement; and when the file's only finding is recorded as fixed,
\* verify() lists it in verified.
C26_Original ==
  /\ [][StrategySucceedsNow =>
          ~ReportsStatement(content', Head(todo), content[Head(todo).line].id)]_vars
  /\ [](pc = "done" =>
          \A i \in 1..Len(fixed) :
            Len(scanResults.violations) = 1
            => \E j \in 1..Len(verified) : verified[j] = fixed[i])

\* the line holds a statement besides the debug call
HasOtherStatement(l) == l.k \in {"debugThenCode", "codeThenDebug"}

\* the line holds a statement that is no part of a comment
HasActiveStatement(l) ==
  l.k \in {"debugThenCode", "codeThenDebug", "codeThenMarker"}

\* C30: a step that applies the debug-removal strategy fails and changes
\* nothing when the target line is a comment; when it succeeds, every other
\* line is unchanged and a statement that shares the target line with the
\* debug call is still active code.
C30_Original ==
  [][(/\ Len(applied') = Len(applied) + 1
      /\ Head(todo).rule = "AvoidDebugStatements")
     => /\ IsCommentLine(content[Head(todo).line])
             => ~applied'[Len(applied')].success /\ content' = content
        /\ applied'[Len(applied')].success
             => /\ Len(content') = Len(content)
                /\ \A n \in 1..Len(content) :
                     n # Head(todo).line => content'[n] = content[n]
                /\ HasOtherStatement(content[Head(todo).line])
                     => HasActiveStatement(content'[Head(todo).line])]_vars

\* how many entries of a result list record the finding v
TimesRecorded(entries, v) ==
  Cardinality({i \in 1..Len(entries) : entries[i].violation = v})

\* C27: when fix() returns, every fixable finding it was given is recorded
\* exactly once, in fixed or in failed, read and write errors included.
C27_Original ==
  pc = "verify" =>
    \A i \in 1..Len(eligible) :
      eligible[i].autoFixable
      => TimesRecorded(fixed, eligible[i]) + TimesRecorded(failed, eligible[i]) = 1

\* C28: no item of verify()'s verified list belongs to a file for which the
\* same call recorded a rollback.
C28_Original ==
  \A j \in 1..Len(verified) : \A r \in 1..Len(rollbacks) :
    verified[j].violation.filePath # rollbacks[r].filePath

\* C29: when verify() comes to a file whose fixes only inserted guard lines
\* above DML statements and whose post-fix content holds no rule match that
\* the pre-fix content did not hold, it finds no introduced regression and
\* the step neither records a rollback nor changes the file.
C29_Original ==
  /\ [](pc = "verifyFile" =>
          ((InsertionOnly(Head(vQueue)) /\ ~HasNewMatch(Head(vQueue)))
             => Introduced(Head(vQueue)) = <<>>))
  /\ [][(/\ pc = "verifyFile"
         /\ InsertionOnly(Head(vQueue))
         /\ ~HasNewMatch(Head(vQueue)))
        => rollbacks' = rollbacks /\ disk' = disk]_vars

====
